---------------------------- MODULE Spec2Model ----------------------------
(***************************************************************************)
(* Pull-based query operators of a6/Operators.cpp: TableIterator,          *)
(* IndexScan, Select, Project, NestedLoopsJoin, Sort and Unique.           *)
(*                                                                         *)
(* An operator is a record holding its fields under the names the source   *)
(* gives them; a child iterator (Iterator* _input, _left, _right) is the   *)
(* child's record nested in its owner, since every operator exclusively    *)
(* owns its children.  open/next/close/n_columns are the virtual calls of  *)
(* the Iterator interface: they dispatch on the kind of the record.        *)
(*                                                                         *)
(* A Row is the sequence of its column values; Row::at is zero-based.      *)
(* Column values are strings in the source, compared with the operators   *)
(* of std::string; they are modelled by the integers 1..MaxVal, whose      *)
(* order stands for the lexicographic order of the strings.                *)
(***************************************************************************)
EXTENDS Integers, Sequences, FiniteSets, TLC

VARIABLES
    root,    \* the operator tree under execution (the consumer's Iterator*)
    phase,   \* "new" (constructed), "open" or "closed": the last of open()/close()
    out,     \* what every next() since the last open() returned, NULLs included
    first,   \* TRUE while the only calls ever made are one open() and next()s after it
    prev,    \* the rows of the previous cycle, when it was drained and then closed
    last,    \* the last call: its name, the row it returned and what it did to rows
    frame    \* the next() call that is running, when calls are followed pass by pass

vars == <<root, phase, out, first, prev, last, frame>>

----------------------------------------------------------------------------
(* Bounds of the model *)

\* the longest table
MaxRows == 3
\* column values are 1..MaxVal
MaxVal == 2

\* next() calls followed within one open cycle: a full drain and two more calls
MaxCalls == MaxRows + 2

Value == 1..MaxVal

----------------------------------------------------------------------------
(* Rows, tables, indexes: the collaborators of the operators *)

\* the null Row*, the end-of-stream sentinel; every row has at least one column
NULL == <<>>

\* Row::at(i), zero-based
at(row, i) == row[i + 1]

\* Row::size()
size(row) == Len(row)

\* std::string::compare of two column values: negative, zero or positive
compare(a, b) == a - b

\* what an operator does to rows during a call: it pulls them from a child and
\* hands them to Row::reclaim
Pulled(op, row) == [op |-> op, ev |-> "pull", row |-> row]
Reclaimed(op, row) == [op |-> op, ev |-> "reclaim", row |-> row]

\* a pull that names the child pulled from (_left or _right)
PulledFrom(op, child, row) ==
    [op |-> op, ev |-> "pull", row |-> row, child |-> child]

\* a row read through a pointer the operator kept from an earlier call
\* (row->size(), row->at(i))
Read(op, row) == [op |-> op, ev |-> "read", row |-> row]

\* child->close(); child->open() made inside a next() call
Reopened(op, child) == [op |-> op, ev |-> "reopen", row |-> NULL, child |-> child]

\* delete of a row
Deleted(op, row) == [op |-> op, ev |-> "delete", row |-> row]

\* a read through a cursor that points at no element; `cursor` says which
Dereferenced(op, cursor) ==
    [op |-> op, ev |-> "dereference", row |-> NULL, cursor |-> cursor]

\* the local variables of a next() call that is inside its while loop: the
\* operator, the row held in the local Row* and the events so far
Frame(it, row, log) == [it |-> it, row |-> row, log |-> log]

\* the result of a next() call: the operator after the call, the row returned
\* and the events of the call, the children's first
Result(it, row, log) == [it |-> it, row |-> row, log |-> log]

KeySeqs == UNION {[1..n -> Value] : n \in 0..MaxRows}

\* a table of one column
Table1(keys) ==
    [columns |-> 1, rows |-> [i \in 1..Len(keys) |-> <<keys[i]>>]]

\* a table of two columns: a key and the row's insertion position, which tells
\* rows of equal keys apart
Table2(keys) ==
    [columns |-> 2, rows |-> [i \in 1..Len(keys) |-> <<keys[i], i>>]]

Tables1 == {Table1(keys) : keys \in KeySeqs}
Tables2 == {Table2(keys) : keys \in KeySeqs}

RECURSIVE open(_), next(_), close(_), n_columns(_)

----------------------------------------------------------------------------
(* TableIterator *)

TableIterator(table) ==
    [kind |-> "TableIterator", _table |-> table,
     _input |-> 1, _end |-> Len(table.rows) + 1]

TableIteratorNColumns(it) == it._table.columns

TableIteratorOpenNoReset(it) == it

TableIteratorOpen(it) == [it EXCEPT !._input = 1]

\* a next() that goes back to the first row after it returned end-of-stream
TableIteratorNextRewinding(it) ==
    IF it._input # it._end
    THEN Result([it EXCEPT !._input = @ + 1], it._table.rows[it._input], <<>>)
    ELSE Result([it EXCEPT !._input = 1], NULL, <<>>)

TableIteratorNext(it) ==
    IF it._input # it._end
    THEN Result([it EXCEPT !._input = @ + 1], it._table.rows[it._input], <<>>)
    ELSE Result(it, NULL, <<>>)

TableIteratorClose(it) ==
    [it EXCEPT !._input = Len(it._table.rows) + 1,
               !._end = Len(it._table.rows) + 1]

----------------------------------------------------------------------------
(* IndexScan *)

\* the key order of an index: the lexicographic order of the key rows
RECURSIVE KeyLess(_, _)
KeyLess(a, b) ==
    /\ b # <<>>
    /\ \/ a = <<>>
       \/ Head(a) < Head(b)
       \/ Head(a) = Head(b) /\ KeyLess(Tail(a), Tail(b))

\* the index of a table on all its columns: one entry per row, `first` the key
\* row and `second` the data row, in key order
Index(table) ==
    LET n == Len(table.rows)
        p == CHOOSE q \in [1..n -> 1..n] :
                 \A i, j \in 1..n :
                     i < j => KeyLess(table.rows[q[i]], table.rows[q[j]])
    IN  [n_columns |-> table.columns,
         entries |-> [i \in 1..n |->
                         [first |-> table.rows[p[i]], second |-> table.rows[p[i]]]]]

\* Index::empty()
empty(index) == Len(index.entries) = 0

\* the constructor leaves _input and _end unset: 0 is the unset cursor
IndexScan(index, lo, hi) ==
    [kind |-> "IndexScan", _index |-> index, _lo |-> lo,
     _hi |-> IF hi = NULL THEN lo ELSE hi, _input |-> 0, _end |-> 0]

IndexScanNColumns(it) == it._index.n_columns

IndexScanOpen(it) ==
    [it EXCEPT !._input = 1, !._end = Len(it._index.entries) + 1]

IndexScanInRangeExclusive(it, key) ==
    at(key, 0) > at(it._lo, 0) /\ at(key, 0) <= at(it._hi, 0)

\* the range test of next(), on the leading key column only
IndexScanInRange(it, key) ==
    at(key, 0) >= at(it._lo, 0) /\ at(key, 0) <= at(it._hi, 0)

\* while( _input != _end ), as long as the loop does not return
IndexScanContinues(it) ==
    /\ ~empty(it._index)
    /\ it._input # it._end
    /\ ~IndexScanInRange(it, it._index.entries[it._input].first)

\* the else branch: _input++;
IndexScanBody(it) == [it EXCEPT !._input = @ + 1]

\* the pass that returns the entry's row, or return next after the loop
IndexScanEnd(it) ==
    IF ~empty(it._index) /\ it._input # it._end
    THEN Result([it EXCEPT !._input = @ + 1],
                it._index.entries[it._input].second, <<>>)
    ELSE Result(it, NULL, <<>>)

RECURSIVE IndexScanLoop(_)
IndexScanLoop(it) ==
    IF IndexScanContinues(it)
    THEN IndexScanLoop(IndexScanBody(it))
    ELSE IndexScanEnd(it)

IndexScanNext(it) ==
    IF ~empty(it._index) THEN IndexScanLoop(it) ELSE Result(it, NULL, <<>>)

IndexScanClose(it) == [it EXCEPT !._input = Len(it._index.entries) + 1]

----------------------------------------------------------------------------
(* Select *)

\* a RowPredicate: the row is accepted when its column 0 is one of `accepts`
RowPredicate(accepts) == [accepts |-> accepts]

\* the call _predicate(row)
Apply(predicate, row) == at(row, 0) \in predicate.accepts

Select(input, predicate) ==
    [kind |-> "Select", _input |-> input, _predicate |-> predicate]

SelectNColumns(it) == n_columns(it._input)

SelectOpen(it) == [it EXCEPT !._input = open(@)]

SelectAcceptsNegated(it, row) == ~Apply(it._predicate, row)

\* if( _predicate(row) )
SelectAccepts(it, row) == Apply(it._predicate, row)

\* while( row != NULL ), as long as the loop does not return
SelectContinues(it, row) == row # NULL /\ ~SelectAccepts(it, row)

\* row = _input->next(); with r what next() gave
SelectPulled(it, log, r) ==
    Frame([it EXCEPT !._input = r.it], r.row,
          log \o r.log \o <<Pulled("Select", r.row)>>)

\* one pass that does not return
SelectBody(it, row, log) == SelectPulled(it, log, next(it._input))

\* return selected;
SelectEnd(it, row, log) == Result(it, row, log)

RECURSIVE SelectLoop(_, _, _)
SelectLoop(it, row, log) ==
    IF SelectContinues(it, row)
    THEN LET b == SelectBody(it, row, log) IN SelectLoop(b.it, b.row, b.log)
    ELSE SelectEnd(it, row, log)

\* Row* row = _input->next();
SelectBegin(it) == SelectPulled(it, <<>>, next(it._input))

SelectNext(it) ==
    LET b == SelectBegin(it) IN SelectLoop(b.it, b.row, b.log)

SelectClose(it) == [it EXCEPT !._input = close(@)]

----------------------------------------------------------------------------
(* Project *)

\* ColumnSelector(n_columns, columns): the width of the rows selected from and
\* the zero-based positions selected, in order
ColumnSelector(width, columns) == [n_columns |-> width, columns |-> columns]

\* ColumnSelector::n_selected()
n_selected(selector) == Len(selector.columns)

\* ColumnSelector::selected(i)
selected(selector, i) == selector.columns[i + 1]

Project(input, columns) ==
    [kind |-> "Project", _input |-> input,
     _column_selector |-> ColumnSelector(n_columns(input), columns)]

ProjectNColumns(it) == n_selected(it._column_selector)

ProjectOpen(it) == [it EXCEPT !._input = open(@)]

ProjectedPositional(it, row) ==
    [i \in 1..n_selected(it._column_selector) |-> at(row, i - 1)]

\* the row next() builds: for each i, projected->append(row->at(selected(i)))
Projected(it, row) ==
    [i \in 1..n_selected(it._column_selector) |->
        at(row, selected(it._column_selector, i - 1))]

ProjectNext(it) ==
    LET r == next(it._input)
        it1 == [it EXCEPT !._input = r.it]
        log == r.log \o <<Pulled("Project", r.row)>>
    IN  IF r.row # NULL
        THEN Result(it1, Projected(it1, r.row),
                    log \o <<Reclaimed("Project", r.row)>>)
        ELSE Result(it1, NULL, log)

ProjectClose(it) == [it EXCEPT !._input = close(@)]

----------------------------------------------------------------------------
(* NestedLoopsJoin *)

NestedLoopsJoin(left, left_join_columns, right, right_join_columns) ==
    [kind |-> "NestedLoopsJoin", _left |-> left, _right |-> right,
     _left_join_columns |-> ColumnSelector(n_columns(left), left_join_columns),
     _right_join_columns |-> ColumnSelector(n_columns(right), right_join_columns),
     _left_row |-> NULL]

NestedLoopsJoinNColumns(it) ==
    IF n_selected(it._left_join_columns) >= 0
       /\ n_selected(it._right_join_columns) >= 0
    THEN it._left_join_columns.n_columns + it._right_join_columns.n_columns - 1
    ELSE 0

NestedLoopsJoinOpen(it) ==
    LET l == next(open(it._left)) IN
    [it EXCEPT !._left = l.it, !._right = open(@), !._left_row = l.row]

\* a match that takes every pair of rows
match_every_pair(it, left, right) == TRUE

match(it, left, right) ==
    at(left, selected(it._left_join_columns, 0))
        = at(right, selected(it._right_join_columns, 0))

\* the columns of `right` from position i on, the joined-on column left out
RECURSIVE RightColumns(_, _, _)
RightColumns(it, right, i) ==
    IF i < size(right)
    THEN (IF i # selected(it._right_join_columns, 0)
          THEN <<at(right, i)>> ELSE <<>>) \o RightColumns(it, right, i + 1)
    ELSE <<>>

join_rows_all_columns(it, left, right) == left \o right

join_rows_if_match(it, left, right) == left \o RightColumns(it, right, 0)

\* while( _left_row != NULL && r_row != NULL && !match(_left_row, r_row) )
NestedLoopsJoinContinues(it, r_row) ==
    it._left_row # NULL /\ r_row # NULL /\ ~match(it, it._left_row, r_row)

\* _left->close(); _left->open(); _left_row = _left->next(); with l what
\* that next() gave
NestedLoopsJoinRestarted(it, r_row, log, l) ==
    Frame([it EXCEPT !._left = l.it, !._left_row = l.row], r_row,
          log \o <<Reopened("NestedLoopsJoin", "_left")>>
              \o l.log \o <<PulledFrom("NestedLoopsJoin", "_left", l.row)>>)

\* a restart of the left scan that keeps the right row: r_row = _right->next()
\* is left out
NestedLoopsJoinRightKept(it, r_row, log, l) ==
    IF l.row = NULL
    THEN NestedLoopsJoinRestarted(
             [it EXCEPT !._left = l.it, !._left_row = l.row], r_row,
             log \o l.log \o <<PulledFrom("NestedLoopsJoin", "_left", l.row)>>,
             next(open(close(it._left))))
    ELSE Frame([it EXCEPT !._left = l.it, !._left_row = l.row], r_row,
               log \o l.log \o <<PulledFrom("NestedLoopsJoin", "_left", l.row)>>)

\* a restart of the right scan in place of the left one
NestedLoopsJoinRightRestarted(it, log, r) ==
    IF r.row # NULL
    THEN Frame([it EXCEPT !._right = open(close(r.it))], r.row,
               log \o r.log
                   \o <<PulledFrom("NestedLoopsJoin", "_right", r.row),
                        Reopened("NestedLoopsJoin", "_right")>>)
    ELSE Frame([it EXCEPT !._right = r.it], r.row,
               log \o r.log \o <<PulledFrom("NestedLoopsJoin", "_right", r.row)>>)

\* r_row = _right->next(); if( r_row != NULL ){ ... }, with r what next() gave
NestedLoopsJoinRightPulled(it, log, r) ==
    IF r.row # NULL
    THEN NestedLoopsJoinRestarted(
             [it EXCEPT !._right = r.it], r.row,
             log \o r.log \o <<PulledFrom("NestedLoopsJoin", "_right", r.row)>>,
             next(open(close(it._left))))
    ELSE Frame([it EXCEPT !._right = r.it], r.row,
               log \o r.log \o <<PulledFrom("NestedLoopsJoin", "_right", r.row)>>)

\* _left_row = _left->next(); if( _left_row == NULL ){ ... }, with l what
\* next() gave
NestedLoopsJoinLeftPulled(it, r_row, log, l) ==
    IF l.row = NULL
    THEN NestedLoopsJoinRightPulled(
             [it EXCEPT !._left = l.it, !._left_row = l.row],
             log \o l.log \o <<PulledFrom("NestedLoopsJoin", "_left", l.row)>>,
             next(it._right))
    ELSE Frame([it EXCEPT !._left = l.it, !._left_row = l.row], r_row,
               log \o l.log \o <<PulledFrom("NestedLoopsJoin", "_left", l.row)>>)

\* one pass through the body of the while loop
NestedLoopsJoinBody(it, r_row, log) ==
    NestedLoopsJoinLeftPulled(it, r_row, log, next(it._left))

\* what follows the loop
NestedLoopsJoinEnd(it, r_row, log) ==
    IF it._left_row # NULL /\ r_row # NULL
    THEN Result(it, join_rows_if_match(it, it._left_row, r_row),
                log \o <<Reclaimed("NestedLoopsJoin", r_row)>>)
    ELSE Result(it, NULL, log)

RECURSIVE NestedLoopsJoinLoop(_, _, _)
NestedLoopsJoinLoop(it, r_row, log) ==
    IF NestedLoopsJoinContinues(it, r_row)
    THEN LET b == NestedLoopsJoinBody(it, r_row, log) IN
         NestedLoopsJoinLoop(b.it, b.row, b.log)
    ELSE NestedLoopsJoinEnd(it, r_row, log)

\* Row* r_row = _right->next();
NestedLoopsJoinFirstPulled(it, r) ==
    Frame([it EXCEPT !._right = r.it], r.row,
          r.log \o <<PulledFrom("NestedLoopsJoin", "_right", r.row)>>)

NestedLoopsJoinBegin(it) == NestedLoopsJoinFirstPulled(it, next(it._right))

NestedLoopsJoinNext(it) ==
    LET b == NestedLoopsJoinBegin(it) IN NestedLoopsJoinLoop(b.it, b.row, b.log)

NestedLoopsJoinClose(it) == [it EXCEPT !._left = close(@), !._right = close(@)]

----------------------------------------------------------------------------
(* Sort *)

\* RowCompare(sort_columns)(a, b): a is before b, the first of the sort columns
\* on which they differ deciding
RECURSIVE RowCompare(_, _, _)
RowCompare(sort_columns, a, b) ==
    /\ sort_columns # <<>>
    /\ \/ at(a, Head(sort_columns)) < at(b, Head(sort_columns))
       \/ /\ at(a, Head(sort_columns)) = at(b, Head(sort_columns))
          /\ RowCompare(Tail(sort_columns), a, b)

\* std::sort(first, last, comp): the rows in an order in which no row is before
\* an earlier one.  The order of rows that compare equal is unspecified; it is
\* a function of the input fixed by the library the program is built with:
\* `ties` says whether that library leaves them in the order of the input
\* ("kept") or turns them round ("reversed")
std_sort(rows, sort_columns, ties) ==
    LET n == Len(rows)
        p == CHOOSE q \in [1..n -> 1..n] :
                 \A i, j \in 1..n :
                     i < j =>
                        /\ q[i] # q[j]
                        /\ ~RowCompare(sort_columns, rows[q[j]], rows[q[i]])
                        /\ ~RowCompare(sort_columns, rows[q[i]], rows[q[j]])
                              => IF ties = "kept" THEN q[i] < q[j] ELSE q[i] > q[j]
    IN  [i \in 1..n |-> rows[p[i]]]

\* the constructor leaves _sorted_iterator unset: 0 is the unset cursor
Sort(input, sort_columns, ties) ==
    [kind |-> "Sort", _input |-> input, _sort_columns |-> sort_columns,
     _sorted |-> <<>>, _sorted_iterator |-> 0, ties |-> ties]

SortNColumns(it) == n_columns(it._input)

\* while( row != NULL ){ _sorted.emplace_back(row); row = _input->next(); }
RECURSIVE SortDrain(_, _, _)
SortDrain(input, row, sorted) ==
    IF row # NULL
    THEN LET r == next(input) IN SortDrain(r.it, r.row, Append(sorted, row))
    ELSE [input |-> input, sorted |-> sorted]

SortOpenUnsorted(it) ==
    LET r == next(open(it._input))
        d == SortDrain(r.it, r.row, <<>>)
    IN  [it EXCEPT !._input = d.input, !._sorted = d.sorted,
                   !._sorted_iterator = 1]

SortOpen(it) ==
    LET r == next(open(it._input))
        d == SortDrain(r.it, r.row, <<>>)
    IN  [it EXCEPT !._input = d.input,
                   !._sorted = std_sort(d.sorted, it._sort_columns, it.ties),
                   !._sorted_iterator = 1]

SortNext(it) ==
    IF it._sorted_iterator # Len(it._sorted) + 1
    THEN Result([it EXCEPT !._sorted_iterator = @ + 1],
                it._sorted[it._sorted_iterator], <<>>)
    ELSE Result(it, NULL, <<>>)

SortClose(it) == [it EXCEPT !._input = close(@)]

----------------------------------------------------------------------------
(* Unique *)

Unique(input) == [kind |-> "Unique", _input |-> input, _last_unique |-> NULL]

UniqueNColumns(it) == n_columns(it._input)

UniqueOpen(it) == [it EXCEPT !._input = open(@)]

UniqueEqualInverted(row, last_unique) ==
    \E i \in 0..(size(row) - 1) : compare(at(row, i), at(last_unique, i)) # 0

\* the for loop of next(): `equal` stays true when no column differs
UniqueEqual(row, last_unique) ==
    \A i \in 0..(size(row) - 1) : compare(at(row, i), at(last_unique, i)) = 0

\* the row just pulled is to be returned: it is the first one, or it has the
\* size of the last one returned and differs from it
UniqueEmits(it, row) ==
    \/ it._last_unique = NULL
    \/ size(row) = size(it._last_unique) /\ ~UniqueEqual(row, it._last_unique)

\* while( row != NULL ), as long as the loop does not return
UniqueContinues(it, row) == row # NULL /\ ~UniqueEmits(it, row)

\* row = _input->next(); with r what next() gave
UniquePulled(it, log, r) ==
    Frame([it EXCEPT !._input = r.it], r.row,
          log \o r.log \o <<Pulled("Unique", r.row)>>)

\* the rest of a pass that does not return: the row was compared with
\* *_last_unique; then row = _input->next();
UniqueBody(it, row, log) ==
    UniquePulled(it, log \o <<Read("Unique", it._last_unique)>>,
                 next(it._input))

\* the pass that returns the row, or return NULL after the loop
UniqueEnd(it, row, log) ==
    IF row # NULL
    THEN Result([it EXCEPT !._last_unique = row], row,
                IF it._last_unique = NULL
                THEN log ELSE log \o <<Read("Unique", it._last_unique)>>)
    ELSE Result(it, NULL, log)

RECURSIVE UniqueLoop(_, _, _)
UniqueLoop(it, row, log) ==
    IF UniqueContinues(it, row)
    THEN LET b == UniqueBody(it, row, log) IN UniqueLoop(b.it, b.row, b.log)
    ELSE UniqueEnd(it, row, log)

\* Row* row = _input->next();
UniqueBegin(it) == UniquePulled(it, <<>>, next(it._input))

UniqueNext(it) ==
    LET b == UniqueBegin(it) IN UniqueLoop(b.it, b.row, b.log)

UniqueClose(it) == [it EXCEPT !._input = close(@)]

----------------------------------------------------------------------------
(* The Iterator interface: virtual dispatch *)

open(it) ==
    CASE it.kind = "TableIterator" -> TableIteratorOpen(it)
      [] it.kind = "IndexScan" -> IndexScanOpen(it)
      [] it.kind = "Select" -> SelectOpen(it)
      [] it.kind = "Project" -> ProjectOpen(it)
      [] it.kind = "NestedLoopsJoin" -> NestedLoopsJoinOpen(it)
      [] it.kind = "Sort" -> SortOpen(it)
      [] it.kind = "Unique" -> UniqueOpen(it)

next(it) ==
    CASE it.kind = "TableIterator" -> TableIteratorNext(it)
      [] it.kind = "IndexScan" -> IndexScanNext(it)
      [] it.kind = "Select" -> SelectNext(it)
      [] it.kind = "Project" -> ProjectNext(it)
      [] it.kind = "NestedLoopsJoin" -> NestedLoopsJoinNext(it)
      [] it.kind = "Sort" -> SortNext(it)
      [] it.kind = "Unique" -> UniqueNext(it)

close(it) ==
    CASE it.kind = "TableIterator" -> TableIteratorClose(it)
      [] it.kind = "IndexScan" -> IndexScanClose(it)
      [] it.kind = "Select" -> SelectClose(it)
      [] it.kind = "Project" -> ProjectClose(it)
      [] it.kind = "NestedLoopsJoin" -> NestedLoopsJoinClose(it)
      [] it.kind = "Sort" -> SortClose(it)
      [] it.kind = "Unique" -> UniqueClose(it)

n_columns(it) ==
    CASE it.kind = "TableIterator" -> TableIteratorNColumns(it)
      [] it.kind = "IndexScan" -> IndexScanNColumns(it)
      [] it.kind = "Select" -> SelectNColumns(it)
      [] it.kind = "Project" -> ProjectNColumns(it)
      [] it.kind = "NestedLoopsJoin" -> NestedLoopsJoinNColumns(it)
      [] it.kind = "Sort" -> SortNColumns(it)
      [] it.kind = "Unique" -> UniqueNColumns(it)

\* the logs of a followed by the logs of b
Then(a, b) == {x \o y : x \in a, y \in b}

\* the values a read through a cursor that points at no element can yield: a
\* null pointer, or a pointer to any row the collection or its input holds
StrayRows(it) == {NULL} \cup {it._sorted[i] : i \in 1..Len(it._sorted)}
                        \cup {it._input._table.rows[i] :
                                 i \in 1..Len(it._input._table.rows)}

\* delete *_sorted_iterator: the row under the cursor if there is one, else a
\* read through a cursor that is unset (no open() yet) or at the end
SortDeleteAtCursor(it) ==
    IF it._sorted_iterator \in 1..Len(it._sorted)
    THEN {<<Deleted("Sort", it._sorted[it._sorted_iterator])>>}
    ELSE {<<Dereferenced("Sort", IF it._sorted_iterator = 0
                                 THEN "unset" ELSE "end"),
            Deleted("Sort", r)>> : r \in StrayRows(it)}

\* the destructors: what releasing the operator does, as the set of event
\* sequences it can produce
RECURSIVE destroy(_)
destroy(it) ==
    CASE it.kind \in {"TableIterator", "IndexScan"} -> {<<>>}
      [] it.kind \in {"Select", "Project"} -> destroy(it._input)
      [] it.kind = "NestedLoopsJoin" ->
            Then(Then(destroy(it._left), destroy(it._right)),
                 {<<Reclaimed("NestedLoopsJoin", it._left_row)>>})
      [] it.kind = "Sort" -> Then(destroy(it._input), SortDeleteAtCursor(it))
      [] it.kind = "Unique" ->
            Then(destroy(it._input), {<<Reclaimed("Unique", it._last_unique)>>})

\* an operator whose cursors no open() has set yet
RECURSIVE HasSingular(_)
HasSingular(it) ==
    CASE it.kind = "TableIterator" -> FALSE
      [] it.kind = "IndexScan" -> it._input = 0 \/ it._end = 0
      [] it.kind \in {"Select", "Project", "Unique"} -> HasSingular(it._input)
      [] it.kind = "NestedLoopsJoin" ->
            HasSingular(it._left) \/ HasSingular(it._right)
      [] it.kind = "Sort" -> it._sorted_iterator = 0

----------------------------------------------------------------------------
(* The consumer: constructs one operator tree and calls open, next, close *)

\* the bounds of an IndexScan: rows of one column; hi may be NULL
Bounds == {<<v>> : v \in Value}

\* the column lists of a Project over a table of two columns
Selections == UNION {[1..n -> {0, 1}] : n \in 1..2}

\* what std::sort may do with rows that compare equal
Ties == {"kept", "reversed"}

Plans ==
    {TableIterator(t) : t \in Tables1 \cup Tables2}
    \cup {IndexScan(Index(t), lo, hi) :
              t \in Tables2, lo \in Bounds, hi \in Bounds \cup {NULL}}
    \cup {Select(TableIterator(t), RowPredicate(a)) :
              t \in Tables2, a \in SUBSET Value}
    \cup {Project(TableIterator(t), c) : t \in Tables2, c \in Selections}
    \cup {NestedLoopsJoin(TableIterator(l), <<0>>, TableIterator(r), <<0>>) :
              l \in Tables2, r \in Tables2}
    \cup {Sort(TableIterator(t), <<0>>, ties) : t \in Tables2, ties \in Ties}
    \cup {Unique(TableIterator(t)) : t \in Tables1 \cup Tables2}
    \cup {Unique(Sort(TableIterator(t), <<0>>, ties)) :
              t \in Tables1, ties \in Ties}

\* the rows of a drain: what next() returned before the first end-of-stream
RECURSIVE RowsOf(_)
RowsOf(s) ==
    IF s = <<>> \/ Head(s) = NULL THEN <<>> ELSE <<Head(s)>> \o RowsOf(Tail(s))

Drained(s) == \E i \in 1..Len(s) : s[i] = NULL

NoPrev == [valid |-> FALSE, rows |-> <<>>]

\* no next() call is running
NoFrame == [active |-> FALSE, it |-> NULL, row |-> NULL, log |-> <<>>, steps |-> 0]

Init ==
    /\ root \in Plans
    /\ phase = "new"
    /\ out = <<>>
    /\ first = TRUE
    /\ prev = NoPrev
    /\ last = [call |-> "new", row |-> NULL, log |-> <<>>]
    /\ frame = NoFrame

Open ==
    /\ phase # "destroyed" /\ ~frame.active
    /\ root' = open(root)
    /\ phase' = "open"
    /\ out' = <<>>
    /\ first' = (first /\ phase = "new")
    /\ prev' = IF phase = "closed" THEN prev ELSE NoPrev
    /\ last' = [call |-> "open", row |-> NULL, log |-> <<>>]
    /\ UNCHANGED frame

CallNext ==
    /\ phase # "destroyed" /\ ~frame.active
    /\ ~HasSingular(root)
    /\ phase = "open" => Len(out) < MaxCalls
    /\ LET r == next(root) IN
           /\ root' = r.it
           /\ out' = IF phase = "open" THEN Append(out, r.row) ELSE out
           /\ last' = [call |-> "next", row |-> r.row, log |-> r.log]
    /\ first' = (first /\ phase = "open")
    /\ prev' = IF phase = "open" THEN prev ELSE NoPrev
    /\ UNCHANGED <<phase, frame>>

Close ==
    /\ phase # "destroyed" /\ ~frame.active
    /\ root' = close(root)
    /\ phase' = "closed"
    /\ out' = <<>>
    /\ first' = FALSE
    /\ prev' = IF phase = "open" /\ Drained(out)
               THEN [valid |-> TRUE, rows |-> RowsOf(out)]
               ELSE NoPrev
    /\ last' = [call |-> "close", row |-> NULL, log |-> <<>>]
    /\ UNCHANGED frame

\* delete of the operator tree; nothing can be called after it. The rows the
\* consumer was handed in the open cycle the delete ends stay on record for a
\* Unique, which still points at the last of them
Destroy ==
    /\ phase # "destroyed" /\ ~frame.active
    /\ phase' = "destroyed"
    /\ \E log \in destroy(root) :
           last' = [call |-> "destroy", row |-> NULL, log |-> log]
    /\ first' = FALSE
    /\ prev' = NoPrev
    /\ out' = IF root.kind = "Unique" THEN out ELSE <<>>
    /\ UNCHANGED <<root, frame>>

Next == Open \/ CallNext \/ Close \/ Destroy

Spec == Init /\ [][Next]_vars

----------------------------------------------------------------------------
(* The same consumer with every next() call followed pass by pass through the  *)
(* while loop of the operator called                                           *)

\* the call up to its loop
begin(it) ==
    CASE it.kind = "Select" -> SelectBegin(it)
      [] it.kind = "NestedLoopsJoin" -> NestedLoopsJoinBegin(it)
      [] it.kind = "Unique" -> UniqueBegin(it)
      [] OTHER -> Frame(it, NULL, <<>>)

\* the loop condition; next() of TableIterator, Project and Sort has no loop
continues(f) ==
    CASE f.it.kind = "IndexScan" -> IndexScanContinues(f.it)
      [] f.it.kind = "Select" -> SelectContinues(f.it, f.row)
      [] f.it.kind = "NestedLoopsJoin" -> NestedLoopsJoinContinues(f.it, f.row)
      [] f.it.kind = "Unique" -> UniqueContinues(f.it, f.row)
      [] OTHER -> FALSE

\* one pass through the loop
body(f) ==
    CASE f.it.kind = "IndexScan" -> Frame(IndexScanBody(f.it), f.row, f.log)
      [] f.it.kind = "Select" -> SelectBody(f.it, f.row, f.log)
      [] f.it.kind = "NestedLoopsJoin" -> NestedLoopsJoinBody(f.it, f.row, f.log)
      [] f.it.kind = "Unique" -> UniqueBody(f.it, f.row, f.log)

\* from the end of the loop to the return
end(f) ==
    CASE f.it.kind = "IndexScan" -> IndexScanEnd(f.it)
      [] f.it.kind = "Select" -> SelectEnd(f.it, f.row, f.log)
      [] f.it.kind = "NestedLoopsJoin" -> NestedLoopsJoinEnd(f.it, f.row, f.log)
      [] f.it.kind = "Unique" -> UniqueEnd(f.it, f.row, f.log)
      [] OTHER -> next(f.it)

\* the consumer calls next(): the call runs up to its loop
EnterNext ==
    /\ phase # "destroyed" /\ ~frame.active
    /\ ~HasSingular(root)
    /\ phase = "open" => Len(out) < MaxCalls
    /\ LET b == begin(root) IN
           frame' = [active |-> TRUE, it |-> b.it, row |-> b.row, log |-> b.log,
                     steps |-> 0]
    /\ UNCHANGED <<root, phase, out, first, prev, last>>

\* the loop condition holds: one pass
Pass ==
    /\ frame.active
    /\ continues(frame)
    /\ LET b == body(frame) IN
           frame' = [active |-> TRUE, it |-> b.it, row |-> b.row, log |-> b.log,
                     steps |-> frame.steps + 1]
    /\ UNCHANGED <<root, phase, out, first, prev, last>>

\* the loop is left and the call returns to the consumer
ReturnNext ==
    /\ frame.active
    /\ ~continues(frame)
    /\ LET r == end(frame) IN
           /\ root' = r.it
           /\ out' = IF phase = "open" THEN Append(out, r.row) ELSE out
           /\ last' = [call |-> "next", row |-> r.row, log |-> r.log]
    /\ first' = (first /\ phase = "open")
    /\ prev' = IF phase = "open" THEN prev ELSE NoPrev
    /\ frame' = NoFrame
    /\ UNCHANGED phase

NextByPass == Open \/ EnterNext \/ Pass \/ ReturnNext \/ Close \/ Destroy

SpecByPass == Init /\ [][NextByPass]_vars

----------------------------------------------------------------------------
(* Vocabulary of the properties *)

Opened(kind) == root.kind = kind /\ phase = "open"

\* the rows returned in the open cycle so far
Returned == RowsOf(out)

\* a next() call in an open cycle returns the rows of `expected` one after the
\* other and end-of-stream from then on
Streams(expected) ==
    \A i \in 1..Len(out) :
        out[i] = IF i <= Len(expected) THEN expected[i] ELSE NULL

Count(s, x) == Cardinality({i \in 1..Len(s) : s[i] = x})

Range(s) == {s[i] : i \in 1..Len(s)}

IsPermutation(s, t) ==
    /\ Len(s) = Len(t)
    /\ \A x \in Range(s) \cup Range(t) : Count(s, x) = Count(t, x)

\* the rows a child stream yields in an open cycle: the table's, or for a Sort
\* that has been opened the rows it has sorted
ChildRows(child) ==
    IF child.kind = "Sort" THEN child._sorted ELSE child._table.rows

\* the rows an operator pulled from its children, or reclaimed, in the last call
EventRows(op, ev) ==
    LET e == SelectSeq(last.log, LAMBDA x : x.op = op /\ x.ev = ev)
    IN  [i \in 1..Len(e) |-> e[i].row]

----------------------------------------------------------------------------
(* C1: NestedLoopsJoin is an equi-join: a drain after open() returns exactly   *)
(* one row for every pair of a left row and a right row whose join columns are *)
(* equal, and no other row.                                                    *)

\* the rows of the equi-join of two tables of two columns on column 0
EquiJoin(left, right) ==
    {<<left[i][1], left[i][2], right[j][2]>> :
        <<i, j>> \in {p \in (1..Len(left)) \X (1..Len(right)) :
                          left[p[1]][1] = right[p[2]][1]}}

C1_JoinReturnsEveryMatchingPair ==
    Opened("NestedLoopsJoin") /\ Drained(out) =>
        LET expected == EquiJoin(root._left._table.rows, root._right._table.rows)
        IN  /\ Range(Returned) = expected
            /\ Len(Returned) = Cardinality(expected)

----------------------------------------------------------------------------
(* C2: for every operator, a full drain, then close(), then open(), then a     *)
(* second full drain returns the same sequence of rows as the first.           *)

C2_ReopenReproducesDrain ==
    phase = "open" /\ prev.valid /\ Drained(out) => Returned = prev.rows

----------------------------------------------------------------------------
(* C3: a drain of a Sort after open() returns a permutation of the rows the    *)
(* child produced, and no returned row is before the row returned just before  *)
(* it under the Row Comparator over the sort columns.                          *)

C3_SortReturnsSortedPermutation ==
    Opened("Sort") /\ Drained(out) =>
        /\ IsPermutation(Returned, ChildRows(root._input))
        /\ \A i \in 1..(Len(Returned) - 1) :
               ~RowCompare(root._sort_columns, Returned[i + 1], Returned[i])

C3_Witness ==
    /\ Opened("Sort") /\ Drained(out)
    /\ Len(Returned) = MaxRows
    /\ \E i \in 1..(MaxRows - 1) :
           RowCompare(root._sort_columns, ChildRows(root._input)[i + 1],
                      ChildRows(root._input)[i])

----------------------------------------------------------------------------
(* C4: Sort is stable: two rows tied on all sort columns are returned in the   *)
(* order in which the child produced them.                                     *)

\* the rows of a table of two columns are told apart by column 1, the position
\* at which the child produces them
C4_SortIsStable ==
    Opened("Sort") /\ Drained(out) =>
        \A i, j \in 1..Len(Returned) :
            /\ i < j
            /\ ~RowCompare(root._sort_columns, Returned[i], Returned[j])
            /\ ~RowCompare(root._sort_columns, Returned[j], Returned[i])
            => Returned[i][2] < Returned[j][2]

----------------------------------------------------------------------------
(* C5: the first drain of a freshly constructed Unique returns the first row   *)
(* of every maximal run of consecutive equal child rows, in child order.       *)

\* the first row of every maximal run of equal rows of s
RunHeads(s) ==
    LET heads == {i \in 1..Len(s) : i = 1 \/ s[i] # s[i - 1]}
        nth(k) == CHOOSE i \in heads : Cardinality({h \in heads : h < i}) = k - 1
    IN  [k \in 1..Cardinality(heads) |-> s[nth(k)]]

C5_UniqueReturnsRunHeads ==
    Opened("Unique") /\ first =>
        /\ Streams(RunHeads(ChildRows(root._input)))
        /\ \A i \in 1..(Len(Returned) - 1) : Returned[i] # Returned[i + 1]

C5_Witness ==
    /\ Opened("Unique") /\ first /\ Drained(out)
    /\ Len(Returned) >= 2
    /\ Len(Returned) < Len(ChildRows(root._input))

----------------------------------------------------------------------------
(* C6: after open(), whatever calls came before, the next N calls of next()    *)
(* of a TableIterator over N rows return the rows in insertion order and every *)
(* later call returns end-of-stream.                                           *)

C6_TableIteratorStreamsTable ==
    Opened("TableIterator") => Streams(root._table.rows)

C6_Witness ==
    /\ Opened("TableIterator") /\ ~first
    /\ Len(root._table.rows) >= 2
    /\ Len(out) = Len(root._table.rows) + 2

----------------------------------------------------------------------------
(* C7: a drain of an IndexScan after open() returns, in key order, the data    *)
(* rows of exactly the entries whose leading key column v has                  *)
(* lo[0] <= v <= hi[0], where hi is lo when no upper bound is given; an empty  *)
(* index gives end-of-stream at once.                                          *)

InBounds(entries, lo, hi) ==
    LET e == SelectSeq(entries,
                       LAMBDA x : lo[1] <= x.first[1] /\ x.first[1] <= hi[1])
    IN  [i \in 1..Len(e) |-> e[i].second]

C7_IndexScanReturnsRange ==
    Opened("IndexScan") =>
        /\ Streams(InBounds(root._index.entries, root._lo, root._hi))
        /\ IndexScan(root._index, root._lo, NULL)._hi = root._lo

C7_Witness ==
    /\ Opened("IndexScan") /\ Drained(out)
    /\ root._lo = root._hi
    /\ Len(Returned) >= 1
    /\ \E i \in 1..Len(root._index.entries) :
           root._index.entries[i].first[1] < root._lo[1]

----------------------------------------------------------------------------
(* C8: a drain of a Select after open() returns exactly the child rows the     *)
(* predicate accepts, unchanged and in child order; each next() call pulls     *)
(* child rows up to and including the first accepted one and none after it.    *)

C8_SelectReturnsAcceptedRows ==
    root.kind = "Select" =>
        /\ phase = "open" =>
              Streams(SelectSeq(root._input._table.rows,
                                LAMBDA r : r[1] \in root._predicate.accepts))
        /\ last.call = "next" =>
              LET pulls == EventRows("Select", "pull")
                  n == Len(pulls)
                  rows == root._input._table.rows
                  k == Cardinality({i \in 1..n : pulls[i] # NULL})
              IN  /\ n >= 1
                  /\ pulls[n] = last.row
                  /\ \A i \in 1..(n - 1) :
                         pulls[i] # NULL /\ pulls[i][1] \notin root._predicate.accepts
                  /\ last.row # NULL => last.row[1] \in root._predicate.accepts
                  \* the rows pulled are the k rows before the child's cursor
                  /\ \A i \in 1..k : pulls[i] = rows[root._input._input - k + i - 1]

C8_Witness ==
    /\ root.kind = "Select" /\ phase = "open" /\ last.call = "next"
    /\ last.row # NULL
    /\ Len(EventRows("Select", "pull")) >= 2
    /\ root._input._input # root._input._end

----------------------------------------------------------------------------
(* C9: each Project.next() call pulls exactly one child row; when the child    *)
(* is exhausted it returns end-of-stream, and otherwise a new row whose i-th   *)
(* column is the child row's column at the i-th selected position, and it      *)
(* reclaims the child row exactly once.                                        *)

C9_ProjectBuildsSelectedColumns ==
    root.kind = "Project" /\ last.call = "next" =>
        LET pulls == EventRows("Project", "pull")
            reclaims == EventRows("Project", "reclaim")
            columns == root._column_selector.columns
        IN  /\ Len(pulls) = 1
            /\ pulls[1] = NULL => last.row = NULL /\ reclaims = <<>>
            /\ pulls[1] # NULL =>
                  /\ Len(last.row) = Len(columns)
                  /\ \A i \in 1..Len(columns) :
                         last.row[i] = pulls[1][columns[i] + 1]
                  /\ reclaims = <<pulls[1]>>

C9_Witness ==
    /\ root.kind = "Project" /\ last.call = "next"
    /\ root._column_selector.columns = <<1, 0>>
    /\ last.row # NULL
    /\ last.row[1] # last.row[2]

----------------------------------------------------------------------------
(* C10: n_columns() of every operator returns the same value before and after  *)
(* every call, and every row returned in an open cycle has n_columns()         *)
(* columns: left width + right width - 1 for a NestedLoopsJoin, the number of  *)
(* selected columns for a Project.                                             *)

C10_NColumnsIsStableAndRowWidth ==
    [][/\ n_columns(root)' = n_columns(root)
       /\ \A i \in 1..Len(out') :
              out'[i] # NULL => Len(out'[i]) = n_columns(root')
       /\ root.kind = "NestedLoopsJoin" =>
              n_columns(root') = n_columns(root._left) + n_columns(root._right) - 1
       /\ root.kind = "Project" =>
              n_columns(root') = Len(root._column_selector.columns)]_vars

C10_Witness ==
    /\ Opened("NestedLoopsJoin")
    /\ Len(Returned) >= 2
    /\ Len(Returned[1]) = 3

----------------------------------------------------------------------------
(* Vocabulary of the ownership properties *)

\* the events of the last call made by operator `op`
EventsOf(op) == SelectSeq(last.log, LAMBDA x : x.op = op)

\* the rows the consumer had been handed in this open cycle before the last
\* call was made
HandedBefore ==
    IF last.call = "next" /\ phase = "open"
    THEN Range(RowsOf(SubSeq(out, 1, Len(out) - 1)))
    ELSE Range(RowsOf(out))

\* the rows `op` pulled in the last next() call and did not return: all the
\* rows it pulled but the one the call returned, which is the last one pulled
Discarded(op) ==
    LET p == EventRows(op, "pull")
        n == IF last.row # NULL THEN Len(p) - 1 ELSE Len(p)
    IN  SelectSeq(SubSeq(p, 1, n), LAMBDA r : r # NULL)

\* the rows of a table are distinct objects with distinct values
DistinctRows(table) ==
    \A i, j \in 1..Len(table.rows) :
        table.rows[i] = table.rows[j] => i = j

----------------------------------------------------------------------------
(* C11: once Unique.next() has returned a row to the caller, neither a later   *)
(* Unique.next() call nor the Unique destructor reads or reclaims that row.    *)
(* Stated over tables whose rows are distinct, where a row's value names it.   *)

C11_ReturnedRowsAreNotTouchedAgain ==
    /\ root.kind = "Unique"
    /\ root._input.kind = "TableIterator"
    /\ DistinctRows(root._input._table)
    /\ last.call \in {"next", "destroy"}
    => LET touched == Range(EventRows("Unique", "read"))
                          \cup Range(EventRows("Unique", "reclaim"))
       IN  touched \cap HandedBefore = {}

----------------------------------------------------------------------------
(* C13: in every open cycle of a Unique, the first one and every later one,    *)
(* the first next() call returns the first row of the child's stream.          *)

C13_UniqueEmitsFirstPulledRow ==
    /\ Opened("Unique")
    /\ Len(out) >= 1
    /\ ChildRows(root._input) # <<>>
    => out[1] = ChildRows(root._input)[1]

----------------------------------------------------------------------------
(* C14: every row NestedLoopsJoin.next() returns is built from a left row l    *)
(* and a right row r that the children produced in the open cycle, with equal  *)
(* values in the join columns, and is l's columns in order followed by r's     *)
(* columns in order without r's join column.                                   *)

\* row r without its column c (zero-based)
WithoutColumn(r, c) ==
    [i \in 1..(Len(r) - 1) |-> IF i <= c THEN r[i] ELSE r[i + 1]]

\* the rows the join pulled from `child` in the last call
JoinPulls(child) ==
    LET e == SelectSeq(EventsOf("NestedLoopsJoin"),
                       LAMBDA x : x.ev = "pull" /\ x.child = child)
    IN  [i \in 1..Len(e) |-> e[i].row]

C14_JoinRowsComeFromMatchingPairs ==
    /\ root.kind = "NestedLoopsJoin"
    /\ last.call = "next"
    /\ last.row # NULL
    => LET l == root._left_row
           rp == JoinPulls("_right")
           r == rp[Len(rp)]
           lc == root._left_join_columns.columns[1]
           rc == root._right_join_columns.columns[1]
       IN  /\ phase = "open"
           /\ l # NULL /\ r # NULL
           /\ root._left._input > 1
           /\ l = root._left._table.rows[root._left._input - 1]
           /\ r = root._right._table.rows[root._right._input - 1]
           /\ l[lc + 1] = r[rc + 1]
           /\ last.row = l \o WithoutColumn(r, rc)

C14_Witness ==
    /\ Opened("NestedLoopsJoin")
    /\ last.call = "next"
    /\ last.row # NULL
    /\ last.row[2] # last.row[3]
    /\ Len(Returned) >= 2

----------------------------------------------------------------------------
(* C15: every row Select.next() pulls and the predicate rejects is reclaimed   *)
(* by Select before the next row is pulled, so that after a call every row     *)
(* pulled has been returned or reclaimed.                                      *)

C15_SelectReclaimsRejectedRows ==
    root.kind = "Select" /\ last.call = "next"
    => EventRows("Select", "reclaim") = Discarded("Select")

----------------------------------------------------------------------------
(* C16: NestedLoopsJoin.next() reclaims every right row it pulls before it     *)
(* pulls the next right row or returns, and reclaims each left row that stops  *)
(* being the current left row exactly once.                                    *)

\* the positions in the join's events of the last call of the pulls of rows
\* from `child`
JoinPullsAt(child) ==
    LET e == EventsOf("NestedLoopsJoin") IN
    {i \in 1..Len(e) :
        e[i].ev = "pull" /\ e[i].child = child /\ e[i].row # NULL}

\* the positions of the pulls that replace a current left row: the pull that
\* opens a pass of the loop, which only runs while there is a current left row
LeftRowReplacedAt ==
    LET e == EventsOf("NestedLoopsJoin") IN
    {i \in 1..Len(e) :
        /\ e[i].ev = "pull" /\ e[i].child = "_left"
        /\ (i > 1 => e[i - 1].ev # "reopen")}

C16_JoinReclaimsConsumedRows ==
    root.kind = "NestedLoopsJoin" /\ last.call = "next"
    => LET e == EventsOf("NestedLoopsJoin")
           reclaims == SelectSeq(EventRows("NestedLoopsJoin", "reclaim"),
                                 LAMBDA r : r # NULL)
       IN  /\ \A i \in JoinPullsAt("_right") :
                  \E j \in (i + 1)..Len(e) :
                      /\ e[j].ev = "reclaim" /\ e[j].row = e[i].row
                      /\ \A k \in (i + 1)..(j - 1) :
                             ~(e[k].ev = "pull" /\ e[k].child = "_right")
           /\ Len(reclaims) = Cardinality(JoinPullsAt("_right"))
                                  + Cardinality(LeftRowReplacedAt)

----------------------------------------------------------------------------
(* C17: every row Unique.next() pulls and skips as a duplicate of the last     *)
(* row returned is reclaimed by Unique, so that after a call every row pulled  *)
(* has been returned or reclaimed.                                             *)

C17_UniqueReclaimsSkippedRows ==
    root.kind = "Unique" /\ last.call = "next"
    => EventRows("Unique", "reclaim") = Discarded("Unique")

----------------------------------------------------------------------------
(* C18: the destructor of a Sort, in whatever state the Sort is, releases      *)
(* every row of the sorted collection that was not handed to the caller        *)
(* exactly once, and reads through no cursor that is at the end or unset.      *)

\* the rows a Sort holds and has not returned: those from the cursor on
SortHeld(it) ==
    IF it._sorted_iterator = 0
    THEN <<>>
    ELSE SubSeq(it._sorted, it._sorted_iterator, Len(it._sorted))

C18_SortDestructorReleasesHeldRows ==
    root.kind = "Sort" /\ phase = "destroyed"
    => /\ EventRows("Sort", "dereference") = <<>>
       /\ IsPermutation(EventRows("Sort", "delete"), SortHeld(root))

----------------------------------------------------------------------------
(* C19: for every operator, once next() has returned end-of-stream in an open  *)
(* cycle, every later next() call of that cycle returns end-of-stream; for a   *)
(* NestedLoopsJoin both when the right side is exhausted and when the left     *)
(* side is empty.                                                              *)

C19_EndOfStreamIsSticky ==
    phase = "open" =>
        \A i, j \in 1..Len(out) : i < j /\ out[i] = NULL => out[j] = NULL

C19_Witness ==
    /\ Opened("NestedLoopsJoin")
    /\ root._left._table.rows = <<>>
    /\ Len(root._right._table.rows) >= 2
    /\ Len(out) >= 3
    /\ out[1] = NULL

----------------------------------------------------------------------------
(* C20: within an open cycle NestedLoopsJoin never re-opens the right child    *)
(* and pulls each right row at most once, so each right row is in at most one  *)
(* returned row and no more rows are returned than the right side has; it      *)
(* closes and re-opens only the left child, and only after the left child      *)
(* returned end-of-stream and the right child then returned a further row.     *)

C20_JoinScansRightOnce ==
    Opened("NestedLoopsJoin") /\ last.call = "next"
    => LET e == EventsOf("NestedLoopsJoin")
           right == root._right._table.rows
           pulled == SelectSeq(JoinPulls("_right"), LAMBDA r : r # NULL)
           cursor == root._right._input
       IN  /\ \A i \in 1..Len(e) :
                  e[i].ev = "reopen" =>
                      /\ e[i].child = "_left"
                      /\ i > 2
                      /\ e[i - 1] = PulledFrom("NestedLoopsJoin", "_right",
                                               e[i - 1].row)
                      /\ e[i - 1].row # NULL
                      /\ e[i - 2] = PulledFrom("NestedLoopsJoin", "_left", NULL)
           /\ pulled = SubSeq(right, cursor - Len(pulled), cursor - 1)
           /\ Len(Returned) <= Len(right)
           /\ \A i, j \in 1..Len(Returned) :
                  i < j => Returned[i][3] < Returned[j][3]

C20_Witness ==
    /\ Opened("NestedLoopsJoin")
    /\ last.call = "next"
    /\ last.row # NULL
    /\ \E i \in 1..Len(last.log) : last.log[i].ev = "reopen"
    /\ Len(Returned) >= 2

----------------------------------------------------------------------------
(* C12: every next() call on every operator returns, with a row or with        *)
(* end-of-stream: the while loop of the call makes a bounded number of passes, *)
(* for NestedLoopsJoin at most one per left row for each right row and for     *)
(* the end of the right side, whatever the left and right tables, empty ones   *)
(* included. A call followed pass by pass returns what the call as a whole     *)
(* returns.                                                                    *)

\* the passes a next() call of the operator can make at most
MostPasses(it) ==
    CASE it.kind = "IndexScan" -> Len(it._index.entries)
      [] it.kind \in {"Select", "Unique"} -> Len(ChildRows(it._input))
      [] it.kind = "NestedLoopsJoin" ->
            Len(it._left._table.rows) * (Len(it._right._table.rows) + 1)
      [] OTHER -> 0

C12_NextTerminates ==
    frame.active =>
        /\ frame.steps <= MostPasses(root)
        /\ ~continues(frame) => end(frame) = next(root)

C12_Witness ==
    /\ frame.active
    /\ root.kind = "NestedLoopsJoin"
    /\ frame.steps >= 3
    /\ \E i \in 1..Len(frame.log) : frame.log[i].ev = "reopen"
    /\ ~continues(frame)

=============================================================================
